---- MODULE Spec2Model ----
(***************************************************************************)
(* Lead router: the webhook ingress (app.py ingest_lead), the idempotency  *)
(* guard (tools/idempotency.py), the workflow graph (app.py                *)
(* build_workflow) and its stages (graph/nodes/*.py).                      *)
(*                                                                         *)
(* Conventions                                                             *)
(*  - A Python dict is a record plus a field `keys`, the set of keys that  *)
(*    are present; d.get(k, dflt) is Get(d, k, dflt).                      *)
(*  - None (and an absent payload field) is the string NONE; "" and NONE   *)
(*    are the falsy strings.                                               *)
(*  - Scores are exact thousandths (0.7 is 700).  The code computes in     *)
(*    binary floating point; sums that are exact here can differ there in  *)
(*    the last bit.                                                        *)
(*  - Time is in seconds; requests are handled one at a time, as the       *)
(*    handler never yields between its guard check and its response.       *)
(*  - The branch function of the conditional edge mutates the record it    *)
(*    is given; the model applies that write to the record the engine      *)
(*    threads through the stages, as the source is written.                *)
(***************************************************************************)
EXTENDS Integers, Sequences, FiniteSets, TLC

VARIABLES tier, store, memory_keys, now, pc, st, ran, calls, hist, resp, thr, routing

vars == <<tier, store, memory_keys, now, pc, st, ran, calls, hist, resp, thr, routing>>

----------------------------------------------------------------------------
(* Bounds *)

MaxReq == 2
MaxTime == 3600
TickStep == 1800
MaxThreads == 2
MaxOps == 4

(* Program constants *)

DefaultTtl == 3600
MinHeadcount == 20
LargeHeadcount == 100
RouteThreshold == 700
NurtureThreshold == 400
HighPriorityThreshold == 800

NONE == "<None>"

Truthy(s) == s # NONE /\ s # ""

Or(a, b) == IF Truthy(a) THEN a ELSE b

Get(d, k, dflt) == IF k \in d.keys THEN d[k] ELSE dflt

Max(a, b) == IF a >= b THEN a ELSE b

Min(a, b) == IF a <= b THEN a ELSE b

Clamp(x) == Max(0, Min(1000, x))

----------------------------------------------------------------------------
(* Strings of the model and the string functions the code applies to them *)

Emails == {"j@acme.com", "J@Acme.com", "j@gmail.com"}

Lower(s) ==
  CASE s = "J@Acme.com" -> "j@acme.com"
    [] s = "Director" -> "director"
    [] s = "Engineer" -> "engineer"
    [] s = "US" -> "us"
    [] s = "SaaS" -> "saas"
    [] s = "Retail" -> "retail"
    [] s = "Team Leader" -> "team leader"
    [] s = "VP Sales" -> "vp sales"
    [] OTHER -> s

Upper(s) ==
  CASE s = "us" -> "US"
    [] s = "br" -> "BR"
    [] s = "ma" -> "MA"
    [] OTHER -> s

\* t in s, for Python strings: some slice of s is t
HasSub(s, t) == \E i \in 1..(Len(s) - Len(t) + 1) : SubSeq(s, i, i + Len(t) - 1) = t

\* s.endswith(t)
EndsWith(s, t) == Len(s) >= Len(t) /\ SubSeq(s, Len(s) - Len(t) + 1, Len(s)) = t

FreeDomains == {"gmail.com", "yahoo.com", "outlook.com", "hotmail.com"}

\* str.endswith(free_domains)
EndsWithFreeMail(s) == \E d \in FreeDomains : EndsWith(s, d)

BuyingRoles == {"head", "lead", "director", "vp", "cxo", "chief", "manager"}

\* any(role in title for role in buying_roles), title already lowercased
HasBuyingRole(t) == \E role \in BuyingRoles : HasSub(t, role)

\* .replace("https://","").replace("http://","").split("/")[0]
HostOf(s) ==
  CASE s = "https://acme.com/about" -> "acme.com"
    [] OTHER -> s

RECURSIVE PyItems(_)
PyItems(s) ==
  IF Len(s) = 0 THEN ""
  ELSE IF Len(s) = 1 THEN "'" \o s[1] \o "'"
  ELSE "'" \o s[1] \o "', " \o PyItems(Tail(s))

\* str() of a list of strings
PyList(s) == "[" \o PyItems(s) \o "]"

----------------------------------------------------------------------------
(* Inputs: webhook payloads and what the collaborators answer *)

\* raw["properties"]: absent, null, {"email": {"value": null}}, or
\* {"email": {"value": "J@Acme.com"}, "company": "Acme"}
PropsShapes == {"absent", "null", "email_null", "full"}

\* the complete payload of the webhook's documentation
CompletePayload ==
  [event_id |-> NONE, id |-> NONE, email |-> "j@acme.com", properties |-> "absent",
   company |-> "Acme", full_name |-> "J Doe", title |-> "Director", country |-> "US",
   website |-> NONE]

\* flat payloads, each required field present or missing
FlatPayloads ==
  {[CompletePayload EXCEPT !.email = e, !.company = c, !.full_name = f,
                           !.title = t[1], !.country = t[2]] :
     e \in {NONE, "j@acme.com", "j@gmail.com"}, c \in {NONE, "Acme"},
     f \in {NONE, "J Doe"}, t \in {<<NONE, NONE>>, <<"Director", "US">>}}

\* payloads that carry nested properties in place of the top-level email
NestedPayloads ==
  {[CompletePayload EXCEPT !.email = NONE, !.title = NONE, !.country = NONE,
                           !.properties = p, !.company = c, !.full_name = f] :
     p \in PropsShapes \ {"absent"}, c \in {NONE, "Acme"}, f \in {NONE, "J Doe"}}

Payloads ==
  FlatPayloads \cup NestedPayloads
    \cup {[CompletePayload EXCEPT !.event_id = "evt-1"],
          [CompletePayload EXCEPT !.email = "J@Acme.com"],
          [CompletePayload EXCEPT !.id = "lead-7"],
          [CompletePayload EXCEPT !.email = NONE, !.website = "https://acme.com/about"]}

EmptyCompany == [keys |-> {}, nulls |-> {}, employees |-> 0, industry |-> "", tech |-> <<>>]

Company(keys, nulls, employees, industry, tech) ==
  [keys |-> keys, nulls |-> nulls, employees |-> employees, industry |-> industry,
   tech |-> tech]

NoEnrichment == [keys |-> {}, company |-> EmptyCompany]

\* a company of 150 employees in industry saas, with no technology stack listed
SaasCompany150 ==
  [keys |-> {"company", "person"},
   company |-> Company({"employees", "industry"}, {}, 150, "saas", <<>>)]

\* what enrich_domain_person can return: {"company": {...}, "person": {...}}
EnrichResults ==
  {SaasCompany150,
   [keys |-> {"company", "person"},
    company |-> Company({"employees", "industry", "tech"}, {}, 150, "SaaS", <<"AWS">>)],
   [keys |-> {"company", "person"},
    company |-> Company({"employees", "industry"}, {"employees", "industry"}, 0, "", <<>>)],
   [keys |-> {"company", "person"}, company |-> EmptyCompany]}

\* the model scorer's score, in thousandths; it is not bound to [0, 1]
ModelScores == {-500, 500, 850, 1500}

ModelReasons == <<"ICP match", "Seniority">>

----------------------------------------------------------------------------
(* State record (graph/state.py) *)

NoNormalized ==
  [email |-> "", company |-> NONE, domain |-> "", full_name |-> "",
   country |-> NONE, title |-> NONE, source |-> NONE]

NoPayload ==
  [event_id |-> NONE, id |-> NONE, email |-> NONE, properties |-> "absent",
   company |-> NONE, full_name |-> NONE, title |-> NONE, country |-> NONE,
   website |-> NONE]

\* the keys a stage or the branch function can assign
StateKeys ==
  {"normalized", "lead_id", "enrichment", "score", "score_reasons", "owner",
   "route_reason", "crm_record_id", "similar_accounts", "summary", "decided_path",
   "nurture_data", "nurture_task", "email_sequence"}

\* writes[k] counts the assignments state[k] = v made to the record so far
BlankState ==
  [keys |-> {},
   writes |-> [k \in StateKeys |-> 0],
   raw |-> NoPayload,
   errors |-> <<>>,
   notifications |-> <<>>,
   score_reasons |-> <<>>,
   normalized |-> NoNormalized,
   lead_id |-> "",
   enrichment |-> NoEnrichment,
   score |-> 0,
   owner |-> NONE,
   route_reason |-> "",
   crm_record_id |-> NONE,
   similar_accounts |-> <<>>,
   summary |-> "",
   decided_path |-> "",
   nurture_data |-> "",
   nurture_task |-> "",
   email_sequence |-> ""]

\* state[k] = v
Put(s, k, v) == [s EXCEPT ![k] = v, !.keys = @ \cup {k}, !.writes[k] = @ + 1]

\* state.setdefault("errors", []).append(msg)
AppendError(s, msg) ==
  [s EXCEPT !.errors = Append(Get(s, "errors", <<>>), msg), !.keys = @ \cup {"errors"}]

\* ingest_lead: the record handed to the engine
InitialState(payload) ==
  [BlankState EXCEPT !.keys = {"raw", "errors", "notifications", "score_reasons"},
                     !.raw = payload]

----------------------------------------------------------------------------
(* Idempotency guard (tools/idempotency.py) *)

AllKeys == {"", "evt-1"} \cup Emails \cup {"ts-" \o ToString(n) : n \in 1..(MaxReq + 1)}

Tiers == {"redis", "memory"}

\* a key set with ex=ttl is gone once ttl seconds have passed
Live(k) == store[k] > now

\* check_and_set with the set-if-absent test dropped: the key is always written
check_and_set_overwrite(key, ttl, err) ==
  IF ~Truthy(key) THEN <<FALSE, store, memory_keys>>
  ELSE IF tier = "redis"
       THEN <<TRUE, [store EXCEPT ![key] = now + ttl], memory_keys>>
       ELSE <<TRUE, store, memory_keys \cup {key}>>

\* check_and_set that answers from the store but never records the key
check_and_set_forget(key, ttl, err) ==
  IF ~Truthy(key) THEN <<FALSE, store, memory_keys>>
  ELSE IF tier = "redis"
       THEN <<err \/ ~Live(key), store, memory_keys>>
       ELSE <<key \notin memory_keys, store, memory_keys>>

\* check_and_set that rejects when the store raises
check_and_set_fail_closed(key, ttl, err) ==
  IF ~Truthy(key) THEN <<FALSE, store, memory_keys>>
  ELSE IF tier = "redis"
       THEN IF err THEN <<FALSE, store, memory_keys>>
            ELSE IF Live(key) THEN <<FALSE, store, memory_keys>>
            ELSE <<TRUE, [store EXCEPT ![key] = now + ttl], memory_keys>>
       ELSE IF key \in memory_keys THEN <<FALSE, store, memory_keys>>
            ELSE <<TRUE, store, memory_keys \cup {key}>>

\* check_and_set without the test for an empty key
check_and_set_any_key(key, ttl, err) ==
  IF tier = "redis"
  THEN IF err THEN <<TRUE, store, memory_keys>>
       ELSE IF Live(key) THEN <<FALSE, store, memory_keys>>
       ELSE <<TRUE, [store EXCEPT ![key] = now + ttl], memory_keys>>
  ELSE IF key \in memory_keys THEN <<FALSE, store, memory_keys>>
       ELSE <<TRUE, store, memory_keys \cup {key}>>

\* check_and_set whose fallback tier forgets a key ttl seconds after admitting it
check_and_set_memory_ttl(key, ttl, err) ==
  IF ~Truthy(key) THEN <<FALSE, store, memory_keys>>
  ELSE IF tier = "redis"
       THEN IF err THEN <<TRUE, store, memory_keys>>
            ELSE IF Live(key) THEN <<FALSE, store, memory_keys>>
            ELSE <<TRUE, [store EXCEPT ![key] = now + ttl], memory_keys>>
       ELSE IF key \in memory_keys /\ Live(key) THEN <<FALSE, store, memory_keys>>
            ELSE <<TRUE, [store EXCEPT ![key] = now + ttl], memory_keys \cup {key}>>

\* Idem.check_and_set(key, ttl); err: the store raises during the call.
\* The result is <<returned value, store', memory_keys'>>.
check_and_set(key, ttl, err) ==
  IF ~Truthy(key) THEN <<FALSE, store, memory_keys>>
  ELSE IF tier = "redis"
       THEN IF err THEN <<TRUE, store, memory_keys>>
            ELSE IF Live(key) THEN <<FALSE, store, memory_keys>>
            ELSE <<TRUE, [store EXCEPT ![key] = now + ttl], memory_keys>>
       ELSE IF key \in memory_keys THEN <<FALSE, store, memory_keys>>
            ELSE <<TRUE, store, memory_keys \cup {key}>>

\* Idem.clear_key(key); err: the store raises during the call.
\* The result is <<returned value, store', memory_keys'>>.
clear_key(key, err) ==
  IF tier = "redis"
  THEN IF err THEN <<FALSE, store, memory_keys>>
       ELSE <<Live(key), [store EXCEPT ![key] = 0], memory_keys>>
  ELSE <<TRUE, store, memory_keys \ {key}>>

----------------------------------------------------------------------------
(* capture (graph/nodes/capture.py) *)

REQUIRED_FIELDS == <<"email", "company", "full_name">>

\* raw.get("properties", {}).get("email", {}).get("value", "")
PropsEmailValue(props) ==
  CASE props = "absent" -> ""
    [] props = "email_null" -> NONE
    [] props = "full" -> "J@Acme.com"
    [] OTHER -> NONE

\* raw.get("properties", {}).get("company")
PropsCompany(props) == IF props = "full" THEN "Acme" ELSE NONE

\* .get on None (properties: null) and .lower() on None raise
CaptureRaises(raw) ==
  \/ ~Truthy(raw.email) /\ raw.properties \in {"null", "email_null"}
  \/ ~Truthy(raw.company) /\ raw.properties = "null"

NormalizedOf(raw) ==
  [email |-> Lower(Or(raw.email, PropsEmailValue(raw.properties))),
   company |-> Or(raw.company, PropsCompany(raw.properties)),
   domain |-> HostOf(Or(raw.website, "")),
   full_name |-> Or(raw.full_name, ""),
   country |-> raw.country,
   title |-> raw.title,
   source |-> NONE]

\* [field for field in REQUIRED_FIELDS if not normalized.get(field)]
MissingFields(normalized) ==
  SelectSeq(REQUIRED_FIELDS, LAMBDA f : ~Truthy(normalized[f]))

MissingError(missing) == "Missing required fields: " \o PyList(missing)

\* capture that always takes the email as lead_id
capture_email_id(s) ==
  LET raw == Get(s, "raw", NoPayload)
      normalized == NormalizedOf(raw)
      missing == MissingFields(normalized)
      s1 == IF Len(missing) > 0 THEN AppendError(s, MissingError(missing)) ELSE s
      s2 == Put(s1, "normalized", normalized)
  IN Put(s2, "lead_id", normalized.email)

capture(s) ==
  LET raw == Get(s, "raw", NoPayload)
      normalized == NormalizedOf(raw)
      missing == MissingFields(normalized)
      s1 == IF Len(missing) > 0 THEN AppendError(s, MissingError(missing)) ELSE s
      s2 == Put(s1, "normalized", normalized)
  IN Put(s2, "lead_id", Or(raw.id, normalized.email))

----------------------------------------------------------------------------
(* enrich (graph/nodes/enrich.py) *)

\* the skip test looking at the email only
EnrichSkips_email_only(s) ==
  LET norm == Get(s, "normalized", NoNormalized)
  IN ~Truthy(norm.email)

EnrichSkips(s) ==
  LET norm == Get(s, "normalized", NoNormalized)
  IN ~Truthy(norm.domain) /\ ~Truthy(norm.email)

enrich_skip(s) == Put(s, "enrichment", NoEnrichment)

enrich_ok(s, data) == Put(s, "enrichment", data)

\* enrich's handler without the reset of enrichment
enrich_fail_keep(s, cause) == AppendError(s, "Enrichment failed: " \o cause)

enrich_fail(s, cause) ==
  Put(AppendError(s, "Enrichment failed: " \o cause), "enrichment", NoEnrichment)

----------------------------------------------------------------------------
(* score (graph/nodes/score.py) *)

CompanyOf(s) ==
  LET e == Get(s, "enrichment", NoEnrichment)
  IN Get(e, "company", EmptyCompany)

\* None >= 20 and None.lower() raise; rule_score is called outside score's try
RuleScoreRaises(s) ==
  LET c == CompanyOf(s)
  IN \/ "employees" \in c.keys /\ "employees" \in c.nulls
     \/ "industry" \in c.keys /\ "industry" \in c.nulls

IcpIndustries == {"saas", "fintech", "ecommerce", "healthtech", "edtech"}

AllowedCountries == {"US", "CA", "UK", "DE", "FR", "MA"}

\* rule_score without the bonus for companies of 100 employees or more
rule_score_no_bonus(s) ==
  LET c == CompanyOf(s)
      norm == Get(s, "normalized", NoNormalized)
      headcount == Get(c, "employees", 0)
      industry == Lower(Get(c, "industry", ""))
      title == Lower(Or(norm.title, ""))
      country == Upper(Or(norm.country, ""))
      tech == Get(c, "tech", <<>>)
      a == IF headcount >= MinHeadcount THEN 300 ELSE 0
      b == IF industry \in IcpIndustries THEN 200 ELSE 0
      t == IF HasBuyingRole(title) THEN 200 ELSE 0
      g == IF country \in AllowedCountries THEN 100 ELSE 0
      f == IF EndsWithFreeMail(norm.email) THEN 400 ELSE 0
      k == IF Len(tech) > 0 THEN 100 ELSE 0
  IN Clamp(a + b + t + g - f + k)

\* rule_score without the final clamp
rule_score_unclamped(s) ==
  LET c == CompanyOf(s)
      norm == Get(s, "normalized", NoNormalized)
      headcount == Get(c, "employees", 0)
      industry == Lower(Get(c, "industry", ""))
      title == Lower(Or(norm.title, ""))
      country == Upper(Or(norm.country, ""))
      tech == Get(c, "tech", <<>>)
      a == IF headcount >= MinHeadcount
           THEN (IF headcount >= LargeHeadcount THEN 400 ELSE 300) ELSE 0
      b == IF industry \in IcpIndustries THEN 200 ELSE 0
      t == IF HasBuyingRole(title) THEN 200 ELSE 0
      g == IF country \in AllowedCountries THEN 100 ELSE 0
      f == IF EndsWithFreeMail(norm.email) THEN 400 ELSE 0
      k == IF Len(tech) > 0 THEN 100 ELSE 0
  IN a + b + t + g - f + k

rule_score(s) ==
  LET c == CompanyOf(s)
      norm == Get(s, "normalized", NoNormalized)
      headcount == Get(c, "employees", 0)
      industry == Lower(Get(c, "industry", ""))
      title == Lower(Or(norm.title, ""))
      country == Upper(Or(norm.country, ""))
      tech == Get(c, "tech", <<>>)
      a == IF headcount >= MinHeadcount
           THEN (IF headcount >= LargeHeadcount THEN 400 ELSE 300) ELSE 0
      b == IF industry \in IcpIndustries THEN 200 ELSE 0
      t == IF HasBuyingRole(title) THEN 200 ELSE 0
      g == IF country \in AllowedCountries THEN 100 ELSE 0
      f == IF EndsWithFreeMail(norm.email) THEN 400 ELSE 0
      k == IF Len(tech) > 0 THEN 100 ELSE 0
  IN Clamp(a + b + t + g - f + k)

\* the combination without the clamp
Combine_unclamped(base, llm) == (base + llm) \div 2

\* max(0.0, min(1.0, 0.5 * base_score + 0.5 * llm_score))
Combine(base, llm) == Clamp((base + llm) \div 2)

FallbackReasons == <<"Rule-based scoring only (LLM failed)">>

score_ok(s, llm, reasons) ==
  Put(Put(s, "score", Combine(rule_score(s), llm)), "score_reasons", reasons)

\* score's handler without the error entry
score_fail_silent(s, cause) ==
  Put(Put(s, "score", rule_score(s)), "score_reasons", FallbackReasons)

score_fail(s, cause) ==
  Put(Put(AppendError(s, "LLM scoring failed: " \o cause), "score", rule_score(s)),
      "score_reasons", FallbackReasons)

----------------------------------------------------------------------------
(* branch_decision (app.py build_workflow) *)

\* the branch with the nurture bound included
BranchTarget_le(s) ==
  IF Get(s, "score", 0) >= RouteThreshold /\ Truthy(Get(s, "owner", NONE)) THEN "route"
  ELSE IF Get(s, "score", 0) <= NurtureThreshold THEN "nurture"
  ELSE "summarize"

\* the branch gated on the score alone
BranchTarget_score_only(s) ==
  IF Get(s, "score", 0) >= RouteThreshold THEN "route"
  ELSE IF Get(s, "score", 0) < NurtureThreshold THEN "nurture"
  ELSE "summarize"

\* the stage the conditional edge selects
BranchTarget(s) ==
  IF Get(s, "score", 0) >= RouteThreshold /\ Truthy(Get(s, "owner", NONE)) THEN "route"
  ELSE IF Get(s, "score", 0) < NurtureThreshold THEN "nurture"
  ELSE "summarize"

\* the write the branch function makes to the record
\* the branch function writing decided_path on the nurture branch only
branch_decision_nurture_only(s) ==
  CASE BranchTarget(s) = "nurture" -> Put(s, "decided_path", "nurture")
    [] OTHER -> s

branch_decision(s) ==
  CASE BranchTarget(s) = "route" -> s
    [] BranchTarget(s) = "nurture" -> Put(s, "decided_path", "nurture")
    [] OTHER -> Put(s, "decided_path", "manual_review")

----------------------------------------------------------------------------
(* summarize (graph/nodes/summarize.py), nurture (graph/nodes/nurture.py) *)

Digit(n) == CASE n = 0 -> "0" [] n = 1 -> "1" [] n = 2 -> "2" [] n = 3 -> "3"
              [] n = 4 -> "4" [] n = 5 -> "5" [] n = 6 -> "6" [] n = 7 -> "7"
              [] n = 8 -> "8" [] OTHER -> "9"

\* f"{score:.2f}" of a score in thousandths, halves rounded up
Fmt2(x) ==
  LET c == (x + 5) \div 10
  IN ToString(c \div 100) \o "." \o Digit((c \div 10) % 10) \o Digit(c % 10)

PyStr(x) == IF x = NONE THEN "None" ELSE x

TemplateSummary(s) ==
  LET norm == Get(s, "normalized", NoNormalized)
  IN "Lead: " \o PyStr(norm.full_name) \o " from " \o PyStr(norm.company)
       \o " (Score: " \o Fmt2(Get(s, "score", 0)) \o ")"

SimilarFound == <<"Acme Inc">>

\* summarize that also records a path of its own
summarize_ok_sets_path(s, similar, summary) ==
  Put(Put(Put(s, "similar_accounts", similar), "summary", summary),
      "decided_path", "qualify")

summarize_ok(s, similar, summary) ==
  Put(Put(s, "similar_accounts", similar), "summary", summary)

\* the inner handler without the errors entry
summarize_llm_fail_silent(s, similar, cause) ==
  LET s1 == Put(s, "similar_accounts", similar)
  IN Put(s1, "summary", TemplateSummary(s1))

\* the inner handler storing the fixed text in place of the template
summarize_llm_fail_fixed(s, similar, cause) ==
  LET s1 == AppendError(Put(s, "similar_accounts", similar),
                        "LLM summarization failed: " \o cause)
  IN Put(s1, "summary", "Summary generation failed")

\* the summarization call raises: inner handler
summarize_llm_fail(s, similar, cause) ==
  LET s1 == AppendError(Put(s, "similar_accounts", similar),
                        "LLM summarization failed: " \o cause)
  IN Put(s1, "summary", TemplateSummary(s1))

\* the outer handler assigning a fresh list: state["errors"] = [error_msg]
summarize_fail_reset(s, cause) ==
  Put(Put([s EXCEPT !.errors = <<"Summarization failed: " \o cause>>,
                    !.keys = @ \cup {"errors"}],
          "similar_accounts", <<>>),
      "summary", "Summary generation failed")

\* summarize's outer handler returning a new record that holds the payload and
\* its own keys only
summarize_fail_fresh(s, cause) ==
  Put(Put(AppendError([InitialState(s.raw) EXCEPT !.errors = s.errors],
                      "Summarization failed: " \o cause),
          "similar_accounts", <<>>),
      "summary", "Summary generation failed")

\* the similarity lookup raises: outer handler
summarize_fail(s, cause) ==
  Put(Put(AppendError(s, "Summarization failed: " \o cause), "similar_accounts", <<>>),
      "summary", "Summary generation failed")

\* nurture without the follow-up task
nurture_no_task(s) ==
  LET s1 == Put(s, "decided_path", "nurture")
      s2 == Put(s1, "nurture_data", "low_score_nurture")
  IN Put(s2, "email_sequence", "low_score_education")

nurture(s) ==
  LET s1 == Put(s, "decided_path", "nurture")
      s2 == Put(s1, "nurture_data", "low_score_nurture")
      s3 == Put(s2, "nurture_task", "nurture_followup")
  IN Put(s3, "email_sequence", "low_score_education")

\* nurture when the k-th assignment of its try raises: the assignments before it
\* are made, then the handler's
nurture_fallback(s, k) ==
  LET s1 == IF k > 1 THEN Put(s, "decided_path", "nurture") ELSE s
      s2 == IF k > 2 THEN Put(s1, "nurture_data", "low_score_nurture") ELSE s1
      s3 == IF k > 3 THEN Put(s2, "nurture_task", "nurture_followup") ELSE s2
      s4 == AppendError(s3, "Nurture process failed: " \o "internal error")
  IN Put(Put(s4, "decided_path", "nurture"), "nurture_data", "fallback_nurture")

----------------------------------------------------------------------------
(* route (graph/nodes/route.py) and the owner rules (tools/hubspot.py) *)

\* a Python dict of strings, or a JSON value that is not a dict (a list)
Dict(map) == [kind |-> "dict", map |-> map]

JsonList == [kind |-> "list", map |-> <<>>]

\* routes.get(k, dflt)
DictGet(t, k, dflt) == IF k \in DOMAIN t.map THEN t.map[k] ELSE dflt

\* the file at ROUTING_JSON: absent, not JSON, or JSON with this content
MissingConfig == [file |-> "missing", content |-> JsonList]

InvalidJsonConfig == [file |-> "invalid_json", content |-> JsonList]

JsonConfig(content) == [file |-> "json", content |-> content]

RoutingConfigs ==
  {MissingConfig,
   InvalidJsonConfig,
   JsonConfig(Dict("US" :> "amer@corp.com" @@ "DEFAULT" :> "sales@corp.com")),
   JsonConfig(Dict("UK" :> "emea@corp.com")),
   JsonConfig(JsonList)}

\* load_routing_rules(): json.load's value as it is, or a built-in table
load_routing_rules(cfg) ==
  CASE cfg.file = "missing" ->
         Dict("US" :> "us-team@company.com" @@ "CA" :> "canada-team@company.com"
                @@ "UK" :> "emea-team@company.com" @@ "DEFAULT" :> "general@company.com")
    [] cfg.file = "invalid_json" -> Dict("DEFAULT" :> "general@company.com")
    [] OTHER -> cfg.content

IndustryRoutes ==
  "saas" :> "saas-team@company.com" @@ "fintech" :> "fintech-team@company.com"
    @@ "ecommerce" :> "ecommerce-team@company.com"

\* (enrichment.get("company", {}).get("industry") or "").lower()
IndustryOf(enrichment) ==
  LET c == Get(enrichment, "company", EmptyCompany)
  IN IF "industry" \in c.nulls THEN "" ELSE Lower(Get(c, "industry", ""))

\* the inputs of one owner resolution: api, whether an API key is configured;
\* existing, the owner id of the contact found in the CRM (NONE: none found);
\* patched, the resolution is replaced by a stub that raises
OwnerCases ==
  [api : BOOLEAN, existing : {NONE, "owner-77"}, patched : BOOLEAN]

\* find_owner_by_rules raises: the stub, or .get on a value that is not a dict
\* (in the handler of the API branch as well)
FindOwnerRaises(norm, enrichment, routes, oc) ==
  \/ oc.patched
  \/ /\ routes.kind # "dict"
     /\ \/ ~oc.api
        \/ ~Truthy(oc.existing) /\ IndustryOf(enrichment) \notin DOMAIN IndustryRoutes

\* HubSpotClient.find_owner_by_rules, where it returns
find_owner_by_rules(norm, enrichment, routes, oc) ==
  LET country == Upper(Or(norm.country, ""))
      industry == IndustryOf(enrichment)
  IN IF ~oc.api
     THEN DictGet(routes, country, DictGet(routes, "DEFAULT", "mock@company.com"))
     ELSE IF Truthy(oc.existing) THEN oc.existing
     ELSE IF routes.kind = "dict" /\ country \in DOMAIN routes.map THEN routes.map[country]
     ELSE IF industry \in DOMAIN IndustryRoutes THEN IndustryRoutes[industry]
     ELSE DictGet(routes, "DEFAULT", "unassigned@company.com")

\* what create_or_update_contact does: returns a record with an id, returns
\* None, or raises
CrmOutcomes == {"id", "none", "raise"}

\* route's outer handler raises: routes.get on a value that is not a dict
RouteRaises(s, cfg, oc) ==
  /\ FindOwnerRaises(Get(s, "normalized", NoNormalized),
                     Get(s, "enrichment", NoEnrichment), load_routing_rules(cfg), oc)
  /\ load_routing_rules(cfg).kind # "dict"

\* route that assigns the table's DEFAULT owner whatever the resolution returned
route_default_owner(s, cfg, oc, crm) ==
  LET norm == Get(s, "normalized", NoNormalized)
      enrichment == Get(s, "enrichment", NoEnrichment)
      routes == load_routing_rules(cfg)
  IN IF FindOwnerRaises(norm, enrichment, routes, oc)
     THEN LET s1 == AppendError(s, "Routing failed: " \o "Routing error")
              s2 == Put(s1, "owner", DictGet(routes, "DEFAULT", "unassigned@company.com"))
          IN Put(s2, "route_reason", "Fallback to default owner due to routing error")
     ELSE LET owner == DictGet(routes, "DEFAULT", "unassigned@company.com")
              s1 == Put(s, "owner", owner)
              s2 == CASE crm = "id" -> Put(s1, "crm_record_id", "12345")
                      [] crm = "none" -> Put(s1, "crm_record_id", NONE)
                      [] OTHER -> Put(AppendError(s1, "CRM operation failed: " \o "API timeout"),
                                      "crm_record_id", NONE)
          IN Put(s2, "route_reason",
                 "Matched territory " \o PyStr(norm.country) \o " -> " \o owner)

\* route(state), where it returns; the arrow of route_reason is written ->
route(s, cfg, oc, crm) ==
  LET norm == Get(s, "normalized", NoNormalized)
      enrichment == Get(s, "enrichment", NoEnrichment)
      routes == load_routing_rules(cfg)
  IN IF FindOwnerRaises(norm, enrichment, routes, oc)
     THEN LET s1 == AppendError(s, "Routing failed: " \o "Routing error")
              s2 == Put(s1, "owner", DictGet(routes, "DEFAULT", "unassigned@company.com"))
          IN Put(s2, "route_reason", "Fallback to default owner due to routing error")
     ELSE LET owner == find_owner_by_rules(norm, enrichment, routes, oc)
              s1 == Put(s, "owner", owner)
              s2 == CASE crm = "id" -> Put(s1, "crm_record_id", "12345")
                      [] crm = "none" -> Put(s1, "crm_record_id", NONE)
                      [] OTHER -> Put(AppendError(s1, "CRM operation failed: " \o "API timeout"),
                                      "crm_record_id", NONE)
          IN Put(s2, "route_reason",
                 "Matched territory " \o PyStr(norm.country) \o " -> " \o owner)

----------------------------------------------------------------------------
(* Ingress and engine *)

NoResp ==
  [status |-> "", lead_id |-> NONE, score |-> -1, owner |-> NONE, path |-> NONE,
   crm_id |-> NONE]

ErrorResp == [NoResp EXCEPT !.status = "error"]

DuplicateResp == [NoResp EXCEPT !.status = "duplicate_ignored"]

\* the success response's content, read from the final record
SuccessResp(s) ==
  [status |-> "success",
   lead_id |-> Get(s, "lead_id", NONE),
   score |-> Get(s, "score", -1),
   owner |-> Get(s, "owner", NONE),
   path |-> Get(s, "decided_path", NONE),
   crm_id |-> Get(s, "crm_record_id", NONE)]

Causes == {"API timeout"}

\* payload.get("event_id") or payload.get("email") or str(time.time())
IdemKey(payload) ==
  Or(payload.event_id, Or(payload.email, "ts-" \o ToString(Len(hist) + 1)))

\* one webhook request: the payload's event id and email as posted, its key, what
\* the guard answered, whether the store raised, whether the engine was invoked,
\* and the response's status
Request(payload, key, ok, err, engine, status) ==
  [event_id |-> payload.event_id, email |-> payload.email,
   key |-> key, ok |-> ok, err |-> err, at |-> now, engine |-> engine, status |-> status]

SetStatus(status) == [hist EXCEPT ![Len(hist)].status = status]

\* the callers of SpecGuard: threads that share one Idem object (fallback tier),
\* or workers that share one Redis (shared-store tier)
Threads == 1..MaxThreads

\* a caller that has not called check_and_set yet
Idle == [at |-> "idle", key |-> "", err |-> FALSE, ret |-> FALSE]

Init ==
  /\ tier \in Tiers
  /\ store = [k \in AllKeys |-> 0]
  /\ memory_keys = {}
  /\ now = 0
  /\ pc = "idle"
  /\ st = BlankState
  /\ ran = <<>>
  /\ calls = <<>>
  /\ hist = <<>>
  /\ resp = NoResp
  /\ thr = [t \in Threads |-> Idle]
  /\ routing = MissingConfig

\* ingest_lead up to the engine call: key, guard, initial record
Ingest ==
  /\ pc = "idle"
  /\ Len(hist) < MaxReq
  /\ \E payload \in Payloads, err \in BOOLEAN :
       LET key == IdemKey(payload)
           r == check_and_set(key, DefaultTtl, err)
       IN /\ err => tier = "redis"
          /\ store' = r[2]
          /\ memory_keys' = r[3]
          /\ IF r[1]
             THEN /\ pc' = "capture"
                  /\ st' = InitialState(payload)
                  /\ resp' = NoResp
                  /\ hist' = Append(hist, Request(payload, key, TRUE, err, TRUE,
                                                  "pending"))
             ELSE /\ pc' = "done"
                  /\ st' = BlankState
                  /\ resp' = DuplicateResp
                  /\ hist' = Append(hist, Request(payload, key, FALSE, err, FALSE,
                                                  "duplicate_ignored"))
  /\ ran' = <<>>
  /\ calls' = <<>>
  /\ UNCHANGED <<tier, now, thr, routing>>

\* the graph with nurture wired on to summarize
Edge_nurture_on(stage) ==
  CASE stage = "capture" -> "enrich"
    [] stage = "enrich" -> "score"
    [] stage = "score" -> "branch"
    [] stage = "route" -> "summarize"
    [] stage = "summarize" -> "end"
    [] stage = "nurture" -> "summarize"

\* build_workflow's edges: the stage after `stage`; "end" is END
Edge(stage) ==
  CASE stage = "capture" -> "enrich"
    [] stage = "enrich" -> "score"
    [] stage = "score" -> "branch"
    [] stage = "route" -> "summarize"
    [] stage = "summarize" -> "end"
    [] stage = "nurture" -> "end"

\* a collaborator call and its outcome; num is the model scorer's score, args
\* the arguments where they are recorded
Call(op, ok, num) == [op |-> op, ok |-> ok, num |-> num, args |-> <<>>, ret |-> NONE]

\* enrich_domain_person(domain=norm.get("domain"), email=norm.get("email"))
EnrichCall(s, ok) ==
  LET norm == Get(s, "normalized", NoNormalized)
  IN [Call("enrich_domain_person", ok, 0) EXCEPT !.args = <<norm.domain, norm.email>>]

\* an escaping exception that also releases the request's idempotency key
Abort_release(stage) ==
  /\ pc' = "done"
  /\ ran' = Append(ran, stage)
  /\ resp' = ErrorResp
  /\ hist' = SetStatus("error")
  /\ store' = [store EXCEPT ![hist[Len(hist)].key] = 0]
  /\ memory_keys' = memory_keys \ {hist[Len(hist)].key}
  /\ UNCHANGED <<tier, now, st, calls, thr, routing>>

\* an exception leaves the engine: ingest_lead's outer handler answers 500
Abort(stage) ==
  /\ pc' = "done"
  /\ ran' = Append(ran, stage)
  /\ resp' = ErrorResp
  /\ hist' = SetStatus("error")
  /\ UNCHANGED <<tier, store, memory_keys, now, st, calls, thr, routing>>

\* a stage returns the record s after the collaborator calls `called`
Step(stage, next, s, called) ==
  /\ pc' = next
  /\ ran' = Append(ran, stage)
  /\ st' = s
  /\ calls' = calls \o called
  /\ UNCHANGED <<tier, store, memory_keys, now, hist, resp, thr, routing>>

Capture ==
  /\ pc = "capture"
  /\ IF CaptureRaises(Get(st, "raw", NoPayload))
     THEN Abort("capture")
     ELSE Step("capture", Edge("capture"), capture(st), <<>>)

\* enrich calling the collaborator a second time after a failure
Enrich_retry ==
  /\ pc = "enrich"
  /\ IF EnrichSkips(st)
     THEN Step("enrich", Edge("enrich"), enrich_skip(st), <<>>)
     ELSE \/ \E data \in EnrichResults :
               Step("enrich", Edge("enrich"), enrich_ok(st, data),
                    <<EnrichCall(st, TRUE)>>)
          \/ \E cause \in Causes :
               Step("enrich", Edge("enrich"), enrich_fail(st, cause),
                    <<EnrichCall(st, FALSE),
                      EnrichCall(st, FALSE)>>)

Enrich ==
  /\ pc = "enrich"
  /\ IF EnrichSkips(st)
     THEN Step("enrich", Edge("enrich"), enrich_skip(st), <<>>)
     ELSE \/ \E data \in EnrichResults :
               Step("enrich", Edge("enrich"), enrich_ok(st, data),
                    <<EnrichCall(st, TRUE)>>)
          \/ \E cause \in Causes :
               Step("enrich", Edge("enrich"), enrich_fail(st, cause),
                    <<EnrichCall(st, FALSE)>>)

Score ==
  /\ pc = "score"
  /\ IF RuleScoreRaises(st)
     THEN Abort("score")
     ELSE \/ \E llm \in ModelScores :
               Step("score", Edge("score"), score_ok(st, llm, ModelReasons),
                    <<Call("score_lead_with_rubric", TRUE, llm)>>)
          \/ \E cause \in Causes :
               Step("score", Edge("score"), score_fail(st, cause),
                    <<Call("score_lead_with_rubric", FALSE, 0)>>)

\* the conditional edge after score
Branch ==
  /\ pc = "branch"
  /\ Step("branch", BranchTarget(st), branch_decision(st), <<>>)

Summarize ==
  /\ pc = "summarize"
  /\ \/ Step("summarize", Edge("summarize"),
             summarize_ok(st, SimilarFound, "Summary for AE"),
             <<Call("similar_accounts", TRUE, 0), Call("summarize_for_ae", TRUE, 0)>>)
     \/ \E cause \in Causes :
          Step("summarize", Edge("summarize"), summarize_llm_fail(st, SimilarFound, cause),
               <<Call("similar_accounts", TRUE, 0), Call("summarize_for_ae", FALSE, 0)>>)
     \/ \E cause \in Causes :
          Step("summarize", Edge("summarize"), summarize_fail(st, cause),
               <<Call("similar_accounts", FALSE, 0)>>)

Nurture ==
  /\ pc = "nurture"
  /\ Step("nurture", Edge("nurture"), nurture(st), <<>>)

\* ingest_lead after the engine returns: one notification, then the response
NotifyOutcomes == {"ts", "none", "raise"}

\* the choice of sender without the high-priority alert
NotifyOp_standard(s) == "send_lead_notification"

NotifyOp(s) ==
  IF Get(s, "score", 0) >= HighPriorityThreshold
  THEN "send_high_priority_alert" ELSE "send_lead_notification"

notify(s, outcome) ==
  LET tag == IF Get(s, "score", 0) >= HighPriorityThreshold
             THEN "high_priority_slack:" ELSE "slack:"
  IN CASE outcome = "ts" ->
            [s EXCEPT !.notifications = Append(@, tag \o "1700000000.000100")]
       [] outcome = "raise" -> AppendError(s, "slack_notification_failed: " \o "API timeout")
       [] OTHER -> s

Notify ==
  /\ pc = "end"
  /\ \E outcome \in NotifyOutcomes :
       /\ st' = notify(st, outcome)
       /\ resp' = SuccessResp(st')
       /\ calls' = Append(calls, Call(NotifyOp(st), outcome = "ts", 0))
  /\ pc' = "done"
  /\ hist' = SetStatus("success")
  /\ UNCHANGED <<tier, store, memory_keys, now, ran, thr, routing>>

\* the handler returns; the record is dropped
Return ==
  /\ pc = "done"
  /\ pc' = "idle"
  /\ st' = BlankState
  /\ ran' = <<>>
  /\ calls' = <<>>
  /\ resp' = NoResp
  /\ UNCHANGED <<tier, store, memory_keys, now, hist, thr, routing>>

\* time passes between requests (the clock starts at the first one); keys past
\* their ttl leave the store
Tick ==
  /\ pc = "idle"
  /\ Len(hist) > 0
  /\ now + TickStep <= MaxTime
  /\ now' = now + TickStep
  /\ store' = [k \in AllKeys |-> IF store[k] > now' THEN store[k] ELSE 0]
  /\ UNCHANGED <<tier, memory_keys, pc, st, ran, calls, hist, resp, thr, routing>>

Next ==
  \/ Ingest
  \/ Capture
  \/ Enrich
  \/ Score
  \/ Branch
  \/ Summarize
  \/ Nurture
  \/ Notify
  \/ Return
  \/ Tick

Spec == Init /\ [][Next]_vars

----------------------------------------------------------------------------
(* Concurrent callers of one guard *)

GuardKeys == {"", "evt-1", "j@acme.com"}

\* caller t enters check_and_set(key); err: the store raises during this call
GCall(t) ==
  /\ thr[t].at = "idle"
  /\ \E key \in GuardKeys, err \in BOOLEAN :
       /\ err => tier = "redis"
       /\ thr' = [thr EXCEPT ![t] = [at |-> "called", key |-> key, err |-> err,
                                     ret |-> FALSE]]
  /\ UNCHANGED <<tier, store, memory_keys, now, pc, st, ran, calls, hist, resp,
               routing>>

\* if not key: return False
GEmpty(t) ==
  /\ thr[t].at = "called"
  /\ ~Truthy(thr[t].key)
  /\ LET r == check_and_set(thr[t].key, DefaultTtl, thr[t].err)
     IN /\ thr' = [thr EXCEPT ![t].at = "done", ![t].ret = r[1]]
        /\ store' = r[2]
        /\ memory_keys' = r[3]
  /\ UNCHANGED <<tier, now, pc, st, ran, calls, hist, resp, routing>>

\* the shared-store tier: one SET with nx and ex, atomic in the store; an error
\* raised by the call is caught and answered True
GRedisSet(t) ==
  /\ thr[t].at = "called"
  /\ Truthy(thr[t].key)
  /\ tier = "redis"
  /\ LET r == check_and_set(thr[t].key, DefaultTtl, thr[t].err)
     IN /\ thr' = [thr EXCEPT ![t].at = "done", ![t].ret = r[1]]
        /\ store' = r[2]
        /\ memory_keys' = r[3]
  /\ UNCHANGED <<tier, now, pc, st, ran, calls, hist, resp, routing>>

\* the fallback tier, first statement: if key in self._memory_keys: return False
GMemCheck(t) ==
  /\ thr[t].at = "called"
  /\ Truthy(thr[t].key)
  /\ tier = "memory"
  /\ thr' = IF thr[t].key \in memory_keys
            THEN [thr EXCEPT ![t].at = "done", ![t].ret = FALSE]
            ELSE [thr EXCEPT ![t].at = "add"]
  /\ UNCHANGED <<tier, store, memory_keys, now, pc, st, ran, calls, hist, resp,
               routing>>

\* the fallback tier, after the test: self._memory_keys.add(key); return True
GMemAdd(t) ==
  /\ thr[t].at = "add"
  /\ memory_keys' = memory_keys \cup {thr[t].key}
  /\ thr' = [thr EXCEPT ![t].at = "done", ![t].ret = TRUE]
  /\ UNCHANGED <<tier, store, now, pc, st, ran, calls, hist, resp, routing>>

NextGuard ==
  \E t \in Threads :
    \/ GCall(t)
    \/ GEmpty(t)
    \/ GRedisSet(t)
    \/ GMemCheck(t)
    \/ GMemAdd(t)

SpecGuard == Init /\ [][NextGuard]_vars

----------------------------------------------------------------------------
(* One caller of one guard over time: check_and_set with a ttl of the      *)
(* caller's choice, clear_key, and time passing between the calls          *)

Ttls == {1, DefaultTtl}

\* one call of the guard as the caller saw it
IdemOp(op, key, ttl, ret) == [op |-> op, key |-> key, ttl |-> ttl, ret |-> ret, at |-> now]

ICheck ==
  /\ Len(hist) < MaxOps
  /\ \E key \in GuardKeys, ttl \in Ttls, err \in BOOLEAN :
       LET r == check_and_set(key, ttl, err)
       IN /\ err => tier = "redis"
          /\ store' = r[2]
          /\ memory_keys' = r[3]
          /\ hist' = Append(hist, IdemOp("check_and_set", key, ttl, r[1]))
  /\ UNCHANGED <<tier, now, pc, st, ran, calls, resp, thr, routing>>

IClear ==
  /\ Len(hist) < MaxOps
  /\ \E key \in GuardKeys, err \in BOOLEAN :
       LET r == clear_key(key, err)
       IN /\ err => tier = "redis"
          /\ store' = r[2]
          /\ memory_keys' = r[3]
          /\ hist' = Append(hist, IdemOp("clear_key", key, 0, r[1]))
  /\ UNCHANGED <<tier, now, pc, st, ran, calls, resp, thr, routing>>

NextIdem ==
  \/ ICheck
  \/ IClear
  \/ Tick

SpecIdem == Init /\ [][NextIdem]_vars

----------------------------------------------------------------------------
(* Direct calls of route, on a record prepared by capture, enrich and score *)
(* as tests/test_flow.py does; then summarize, the stage route leads to    *)

InitRoute ==
  /\ tier \in Tiers
  /\ store = [k \in AllKeys |-> 0]
  /\ memory_keys = {}
  /\ now = 0
  /\ pc = "idle"
  /\ st = BlankState
  /\ ran = <<>>
  /\ calls = <<>>
  /\ hist = <<>>
  /\ resp = NoResp
  /\ thr = [t \in Threads |-> Idle]
  /\ routing \in RoutingConfigs

\* what the enrichment collaborator and the model scorer do in the preparation
PrepCases ==
  [data : EnrichResults \cup {NoEnrichment}, llm : ModelScores \cup {-1}]

\* state = capture(state); state = enrich(state); state = score(state)
Prepared(payload, c) ==
  LET s1 == capture(InitialState(payload))
      s2 == IF EnrichSkips(s1) THEN enrich_skip(s1)
            ELSE IF c.data = NoEnrichment THEN enrich_fail(s1, "API timeout")
            ELSE enrich_ok(s1, c.data)
  IN IF c.llm = -1 THEN score_fail(s2, "API timeout")
     ELSE score_ok(s2, c.llm, ModelReasons)

PrepRaises(payload, c) ==
  \/ CaptureRaises(payload)
  \/ LET s1 == capture(InitialState(payload))
     IN ~EnrichSkips(s1) /\ c.data # NoEnrichment /\ RuleScoreRaises(enrich_ok(s1, c.data))

\* the preparation, after which `stage` is the next call
StageSetup(stage) ==
  /\ \E payload \in Payloads, c \in PrepCases :
       /\ ~PrepRaises(payload, c)
       /\ st' = Prepared(payload, c)
  /\ pc' = stage
  /\ ran' = <<"capture", "enrich", "score">>
  /\ UNCHANGED <<tier, store, memory_keys, now, calls, hist, resp, thr, routing>>

RouteSetup ==
  /\ pc = "idle"
  /\ StageSetup("route")

\* the owner resolution's call, returning owner; args records what the call
\* reads besides the record: the client's mode and the owner id of the contact
\* that the CRM holds
OwnerCall(owner, oc) ==
  [Call("find_owner_by_rules", TRUE, 0)
     EXCEPT !.ret = owner, !.args = <<IF oc.api THEN "api" ELSE "mock", oc.existing>>]

\* the upsert's call: it returns a record whose id is "12345", or fails
CrmCall(crm) ==
  [Call("create_or_update_contact", crm = "id", 0)
     EXCEPT !.ret = IF crm = "id" THEN "12345" ELSE NONE]

\* the exception leaves the stage; s is the record as the stage left it
StageRaise(stage, s, called) ==
  /\ pc' = "raised"
  /\ ran' = Append(ran, stage)
  /\ st' = s
  /\ calls' = calls \o called
  /\ UNCHANGED <<tier, store, memory_keys, now, hist, resp, thr, routing>>

Route ==
  /\ pc = "route"
  /\ \E oc \in OwnerCases, crm \in CrmOutcomes :
       LET norm == Get(st, "normalized", NoNormalized)
           enrichment == Get(st, "enrichment", NoEnrichment)
           routes == load_routing_rules(routing)
           threw == FindOwnerRaises(norm, enrichment, routes, oc)
           called == IF threw THEN <<Call("find_owner_by_rules", FALSE, 0)>>
                     ELSE <<OwnerCall(find_owner_by_rules(norm, enrichment, routes, oc), oc),
                            CrmCall(crm)>>
       IN IF RouteRaises(st, routing, oc)
          THEN StageRaise("route", AppendError(st, "Routing failed: " \o "Routing error"),
                          called)
          ELSE Step("route", Edge("route"), route(st, routing, oc, crm), called)

NextRoute ==
  \/ RouteSetup
  \/ Route
  \/ Summarize

SpecRoute == InitRoute /\ [][NextRoute]_vars

----------------------------------------------------------------------------
(* Direct calls of nurture on a prepared record, as test_nurture_node does; *)
(* an unexpected error can be raised by any of the four assignments of its *)
(* try block (fault k: by the k-th; fault 0: by none)                      *)

NurtureFaults == 0..4

NurtureSetup ==
  /\ pc = "idle"
  /\ StageSetup("nurture")

NurtureDirect ==
  /\ pc = "nurture"
  /\ \E fault \in NurtureFaults :
       Step("nurture", Edge("nurture"),
            IF fault = 0 THEN nurture(st) ELSE nurture_fallback(st, fault), <<>>)

NextNurture ==
  \/ NurtureSetup
  \/ NurtureDirect

SpecNurture == Init /\ [][NextNurture]_vars

----------------------------------------------------------------------------
(* Direct calls of score on a record that holds normalized and enrichment, *)
(* as test_score_node does; the inputs of rule_score are drawn here        *)

ScoreTitles == {NONE, "Director", "Team Leader", "Engineer", "VP Sales"}

ScoreCountries == {NONE, "US", "us", "br", "ma"}

ScoreEmails == {"", "j@acme.com", "j@gmail.com", "j@hotmail.com", "j@gmail.com.br"}

\* enrichment["company"]: each of employees, industry and tech absent, null
\* (employees, industry) or holding a value
ScoreCompanies ==
  {Company(IF emp = -2 THEN ind[1] \cup tech[1] ELSE {"employees"} \cup ind[1] \cup tech[1],
           IF emp = -1 THEN {"employees"} \cup ind[2] ELSE ind[2],
           IF emp < 0 THEN 0 ELSE emp, ind[3], tech[2]) :
     emp \in {-2, -1, 19, 20, 99, 100},
     ind \in {<<{}, {}, "">>, <<{"industry"}, {"industry"}, "">>,
              <<{"industry"}, {}, "SaaS">>, <<{"industry"}, {}, "Retail">>,
              <<{"industry"}, {}, "edtech">>},
     tech \in {<<{}, <<>> >>, <<{"tech"}, <<>> >>, <<{"tech"}, <<"AWS">> >>}}

ScoreInputs ==
  {Put(Put(InitialState(NoPayload), "normalized",
           [NoNormalized EXCEPT !.email = e, !.title = t, !.country = c]),
       "enrichment", [keys |-> {"company"}, company |-> co]) :
     e \in ScoreEmails, t \in ScoreTitles, c \in ScoreCountries, co \in ScoreCompanies}

InitScore ==
  /\ tier \in Tiers
  /\ store = [k \in AllKeys |-> 0]
  /\ memory_keys = {}
  /\ now = 0
  /\ pc = "score"
  /\ st \in ScoreInputs
  /\ ran = <<>>
  /\ calls = <<>>
  /\ hist = <<>>
  /\ resp = NoResp
  /\ thr = [t \in Threads |-> Idle]
  /\ routing = MissingConfig

ScoreDirect ==
  /\ pc = "score"
  /\ IF RuleScoreRaises(st)
     THEN StageRaise("score", st, <<>>)
     ELSE \/ \E llm \in ModelScores :
               Step("score", Edge("score"), score_ok(st, llm, ModelReasons),
                    <<Call("score_lead_with_rubric", TRUE, llm)>>)
          \/ \E cause \in Causes :
               Step("score", Edge("score"), score_fail(st, cause),
                    <<Call("score_lead_with_rubric", FALSE, 0)>>)

NextScore == ScoreDirect

SpecScore == InitScore /\ [][NextScore]_vars

----------------------------------------------------------------------------
(* Properties *)

Last(q) == q[Len(q)]

InSeq(x, q) == \E i \in 1..Len(q) : q[i] = x

IsPrefix(a, b) == Len(a) <= Len(b) /\ \A i \in 1..Len(a) : a[i] = b[i]

Terminal == {"nurture", "summarize"}

\* the engine was invoked for the request being handled
Admitted == Len(hist) > 0 /\ Last(hist).engine

C2_DuplicateEventIgnored ==
  \A i, j \in 1..Len(hist) :
    (/\ i < j
     /\ hist[i].key = "evt-1" /\ hist[j].key = "evt-1"
     /\ hist[i].ok
     /\ hist[j].at < hist[i].at + DefaultTtl)
      => hist[i].engine /\ ~hist[j].engine /\ hist[j].status = "duplicate_ignored"

\* C2 (amended): the same, provided the guard's store raised on neither check.
C2_DuplicateEventIgnoredStoreUp ==
  \A i, j \in 1..Len(hist) :
    (/\ i < j
     /\ hist[i].key = "evt-1" /\ hist[j].key = "evt-1"
     /\ hist[i].ok
     /\ ~hist[i].err /\ ~hist[j].err
     /\ hist[j].at < hist[i].at + DefaultTtl)
      => hist[i].engine /\ ~hist[j].engine /\ hist[j].status = "duplicate_ignored"

C2_Witness ==
  /\ Len(hist) = 2
  /\ hist[1].key = "evt-1" /\ hist[2].key = "evt-1"
  /\ ~hist[1].err /\ ~hist[2].err
  /\ hist[1].engine /\ hist[1].status = "success"
  /\ ~hist[2].engine /\ hist[2].status = "duplicate_ignored"
  /\ pc = "done" /\ resp = DuplicateResp /\ ran = <<>>

Paths ==
  {<<"capture", "enrich", "score", "branch", "route", "summarize">>,
   <<"capture", "enrich", "score", "branch", "nurture">>,
   <<"capture", "enrich", "score", "branch", "summarize">>}

\* C3: the stages of a run are executed in graph order, each at most once: capture,
\* enrich, score, the branch decision, then route-summarize, nurture or summarize;
\* a run that the engine completes ends after nurture or after summarize.
C3_GraphOrder ==
  /\ \E p \in Paths : IsPrefix(ran, p)
  /\ pc = "end" => ran \in Paths
  /\ (pc = "done" /\ resp.status = "success") => ran \in Paths
  /\ pc \in {"capture", "enrich", "score", "branch", "route", "summarize", "nurture"}
       => \E p \in Paths : IsPrefix(Append(ran, pc), p)

C3_Witness ==
  /\ pc = "end"
  /\ ran = <<"capture", "enrich", "score", "branch", "nurture">>

\* C4: an admitted submission's run is never aborted: its request is never answered
\* with the error status, and when the handler is done the run has ended in a
\* terminal stage.
C4_NeverAborts ==
  /\ \A i \in 1..Len(hist) : hist[i].engine => hist[i].status # "error"
  /\ (pc = "done" /\ Admitted) => (Len(ran) > 0 /\ Last(ran) \in Terminal)

\* C5: right after the branch decision, score < 0.4 gives decided_path nurture and
\* the nurture stage next, 0.4 <= score < 0.7 gives manual_review and summarize
\* next, and route is next only if score >= 0.7.
C5_BranchLaw ==
  (Len(ran) > 0 /\ Last(ran) = "branch") =>
    LET sc == Get(st, "score", 0)
        path == Get(st, "decided_path", NONE)
    IN /\ sc < 400 => (path = "nurture" /\ pc = "nurture")
       /\ (400 <= sc /\ sc < 700) => (path = "manual_review" /\ pc = "summarize")
       /\ pc = "route" => sc >= 700

C5_Witness ==
  /\ Len(ran) > 0 /\ Last(ran) = "branch"
  /\ st.score = 400
  /\ pc = "summarize"
  /\ st.decided_path = "manual_review"

\* C6: no run executes route; a submission with score >= 0.7 goes from the branch
\* to summarize with decided_path manual_review; the final record and the response
\* carry no owner and no crm_record_id.
C6_RouteNeverRuns ==
  /\ pc # "route"
  /\ ~InSeq("route", ran)
  /\ (Len(ran) > 0 /\ Last(ran) = "branch" /\ Get(st, "score", 0) >= 700)
       => (pc = "summarize" /\ Get(st, "decided_path", NONE) = "manual_review")
  /\ pc \in {"end", "done"}
       => (/\ "owner" \notin st.keys
           /\ "crm_record_id" \notin st.keys
           /\ resp.owner = NONE /\ resp.crm_id = NONE)

C6_Witness ==
  /\ pc = "done"
  /\ resp.status = "success"
  /\ resp.score >= 700
  /\ resp.path = "manual_review"
  /\ ran = <<"capture", "enrich", "score", "branch", "summarize">>

\* C7: once the score stage has run, the stored score is within [0, 1], whatever
\* the rule inputs and the model scorer's answer, and when the model scorer fails.
C7_ScoreClamped ==
  InSeq("score", ran) /\ "score" \in st.keys => (0 <= st.score /\ st.score <= 1000)

\* the model scorer answered 1.5 and the stored score is the clamped 1.0
C7_Witness ==
  /\ pc = "branch"
  /\ Last(calls) = Call("score_lead_with_rubric", TRUE, 1500)
  /\ st.score = 1000

\* the required fields a payload gives no value for
MissingInPayload(raw) ==
  LET has == [f \in {"email", "company", "full_name"} |->
                CASE f = "email" -> Truthy(raw.email) \/ raw.properties = "full"
                  [] f = "company" -> Truthy(raw.company) \/ raw.properties = "full"
                  [] OTHER -> Truthy(raw.full_name)]
  IN SelectSeq(REQUIRED_FIELDS, LAMBDA f : ~has[f])

\* C8: for a payload missing required fields, once capture has run errors holds
\* exactly one missing-fields entry, naming all of them, and the run goes on
\* through enrich and score to a terminal stage.
C8_MissingFieldsRecorded ==
  (InSeq("capture", ran) /\ Len(MissingInPayload(st.raw)) > 0) =>
    /\ Len(st.errors) > 0
    /\ st.errors[1] = MissingError(MissingInPayload(st.raw))
    /\ \A i \in 2..Len(st.errors) : st.errors[i] # st.errors[1]
    /\ pc = "done" =>
         (InSeq("enrich", ran) /\ InSeq("score", ran) /\ Last(ran) \in Terminal)

EnrichError == "Enrichment failed: API timeout"

\* C9: when the enrichment call raised, the enrich stage returns with
\* enrichment = {} and the failure in errors, and the run goes on: it is not
\* aborted and ends in a terminal stage with the success response.
C9_EnrichFailureDegrades ==
  (Len(calls) > 0 /\ calls[1] = EnrichCall(st, FALSE)) =>
    /\ "enrichment" \in st.keys /\ st.enrichment = NoEnrichment
    /\ InSeq(EnrichError, st.errors)
    /\ pc \in {"score", "branch", "summarize", "nurture", "end", "done"}
    /\ pc = "done" => (resp.status = "success" /\ Last(ran) \in Terminal)

C9_Witness ==
  /\ pc = "done"
  /\ Len(calls) > 0 /\ calls[1] = EnrichCall(st, FALSE)
  /\ resp.status = "success"
  /\ InSeq(EnrichError, st.errors)
  /\ st.enrichment = NoEnrichment

\* C10: a score step whose model call returned (m, reasons) stores
\* clamp(0.5 * rule + 0.5 * m), stores reasons and leaves errors alone; one whose
\* model call raised stores the rule score, the single fallback reason, and
\* appends one error.
C10_ScoreCombination ==
  [][(pc = "score" /\ pc' = "branch") =>
       LET c == Last(calls')
           rule == rule_score(st)
       IN /\ Len(calls') = Len(calls) + 1
          /\ c.op = "score_lead_with_rubric"
          /\ c.ok => (/\ st'.score = Max(0, Min(1000, (rule + c.num) \div 2))
                      /\ st'.score_reasons = ModelReasons
                      /\ st'.errors = st.errors)
          /\ ~c.ok => (/\ st'.score = rule
                       /\ Len(st'.score_reasons) = 1
                       /\ st'.score_reasons[1] = "Rule-based scoring only (LLM failed)"
                       /\ Len(st'.errors) = Len(st.errors) + 1
                       /\ IsPrefix(st.errors, st'.errors))]_vars

C10_Witness ==
  /\ pc = "branch"
  /\ Last(calls) = Call("score_lead_with_rubric", FALSE, 0)
  /\ st.score = 300
  /\ st.score_reasons = FallbackReasons
  /\ Last(st.errors) = "LLM scoring failed: API timeout"

\* a request whose engine run ended with an escaping exception
Failed(r) == r.engine /\ r.status = "error"

\* C11 as stated: when an exception escapes the engine run of an admitted
\* submission the ingress answers with the error status, and a resubmission
\* with the same key within the ttl is answered duplicate_ignored without
\* running the engine.
C11_FailureConsumesKey ==
  /\ (pc = "done" /\ Len(hist) > 0 /\ Failed(Last(hist))) =>
        /\ resp = ErrorResp
        /\ resp.status \notin {"success", "duplicate_ignored"}
  /\ \A i, j \in 1..Len(hist) :
       (/\ i < j
        /\ Failed(hist[i])
        /\ hist[j].key = hist[i].key
        /\ hist[j].at < hist[i].at + DefaultTtl)
         => ~hist[j].engine /\ hist[j].status = "duplicate_ignored"

\* C11 (amended): the same, provided the guard's store raised on neither check.
C11_FailureConsumesKeyStoreUp ==
  /\ (pc = "done" /\ Len(hist) > 0 /\ Failed(Last(hist))) =>
        /\ resp = ErrorResp
        /\ resp.status \notin {"success", "duplicate_ignored"}
  /\ \A i, j \in 1..Len(hist) :
       (/\ i < j
        /\ Failed(hist[i])
        /\ hist[j].key = hist[i].key
        /\ ~hist[i].err /\ ~hist[j].err
        /\ hist[j].at < hist[i].at + DefaultTtl)
         => ~hist[j].engine /\ hist[j].status = "duplicate_ignored"

C11_Witness ==
  /\ Len(hist) = 2
  /\ Failed(hist[1])
  /\ hist[2].key = hist[1].key
  /\ ~hist[1].err /\ ~hist[2].err
  /\ hist[2].at < hist[1].at + DefaultTtl
  /\ ~hist[2].engine /\ hist[2].status = "duplicate_ignored"
  /\ pc = "done" /\ resp = DuplicateResp /\ ran = <<>>

\* the key C12 describes: the event id, else the lowercased email, else a
\* time-based value (any value that is neither an event id nor an email)
NormalizedKeyOf(r) ==
  IF Truthy(r.event_id) THEN r.key = r.event_id
  ELSE IF Truthy(r.email) THEN r.key = Lower(r.email)
  ELSE r.key \notin {"", "evt-1"} \cup Emails

\* C12: every request's idempotency key is its event id, else its lowercased
\* email, else time-based; and of two requests without event id whose emails are
\* equal once lowercased, the second, if within the ttl and with no store error
\* on either check, is rejected as a duplicate.
C12_KeyIsNormalizedEmail ==
  /\ \A i \in 1..Len(hist) : NormalizedKeyOf(hist[i])
  /\ \A i, j \in 1..Len(hist) :
       (/\ i < j
        /\ ~Truthy(hist[i].event_id) /\ ~Truthy(hist[j].event_id)
        /\ Truthy(hist[i].email) /\ Truthy(hist[j].email)
        /\ Lower(hist[i].email) = Lower(hist[j].email)
        /\ hist[i].ok
        /\ ~hist[i].err /\ ~hist[j].err
        /\ hist[j].at < hist[i].at + DefaultTtl)
         => hist[j].key = hist[i].key /\ ~hist[j].ok

\* C13: of the concurrent check_and_set calls made with one non-empty key on one
\* guard, none of them meeting a store error, at most one returns true.
C13_AtMostOneAdmitted ==
  \A t, u \in Threads :
    (/\ t # u
     /\ thr[t].at = "done" /\ thr[u].at = "done"
     /\ thr[t].key = thr[u].key /\ Truthy(thr[t].key)
     /\ ~thr[t].err /\ ~thr[u].err)
      => ~(thr[t].ret /\ thr[u].ret)

\* C14: a check_and_set call with an empty key returns false, in both tiers and
\* whether or not the store raises, and leaves the recorded keys as they were.
C14_EmptyKeyNeverAdmitted ==
  [][\A t \in Threads :
       (thr[t].at = "called" /\ thr[t].key = "" /\ thr'[t].at = "done")
         => /\ ~thr'[t].ret
            /\ store' = store
            /\ memory_keys' = memory_keys]_vars

C14_Witness ==
  \E t, u \in Threads :
    /\ thr[t].at = "done" /\ thr[t].key = "" /\ thr[t].err /\ ~thr[t].ret
    /\ thr[u].at = "done" /\ thr[u].key = "evt-1" /\ thr[u].ret
    /\ Live("evt-1")

\* C15: a check of a non-empty key during which the store raises is answered
\* true: the request is admitted and the engine runs, it is never answered as a
\* duplicate, even when the key was recorded by an earlier request and is live.
C15_FailOpen ==
  \A i \in 1..Len(hist) :
    (hist[i].err /\ Truthy(hist[i].key))
      => hist[i].ok /\ hist[i].engine /\ hist[i].status # "duplicate_ignored"

C15_Witness ==
  /\ Len(hist) = 2
  /\ hist[1].key = hist[2].key
  /\ hist[1].ok /\ ~hist[1].err
  /\ hist[2].at < hist[1].at + DefaultTtl
  /\ hist[2].err /\ hist[2].ok /\ hist[2].status = "success"

\* the run has scored scenario A: the complete payload for j@acme.com, the
\* enrichment of 150 employees in saas, and a model score of 0.85
ScenarioA ==
  /\ Get(st, "raw", NoPayload) = CompletePayload
  /\ Get(st, "enrichment", NoEnrichment) = SaasCompany150
  /\ InSeq("score", ran)
  /\ InSeq(Call("score_lead_with_rubric", TRUE, 850), calls)

\* where scenario A ends: summarize after the branch, route not executed, the
\* path manual_review in the record and in the response
ScenarioAEnds ==
  /\ ~InSeq("route", ran)
  /\ pc \in {"end", "done"} =>
       /\ ran = <<"capture", "enrich", "score", "branch", "summarize">>
       /\ st.decided_path = "manual_review"
  /\ pc = "done" => resp.path = "manual_review"

\* C16 as stated: in scenario A the rule score is 1.0, the final score 0.925, and
\* the run ends in summarize with decided_path = manual_review, without route.
C16_ScenarioA ==
  ScenarioA => rule_score(st) = 1000 /\ st.score = 925 /\ ScenarioAEnds

\* C16 (amended): in scenario A the rule score is 0.9, the final score 0.875, and
\* the run ends in summarize with decided_path = manual_review, without route.
C16_ScenarioA_875 ==
  ScenarioA => rule_score(st) = 900 /\ st.score = 875 /\ ScenarioAEnds

C16_Witness ==
  /\ ScenarioA
  /\ pc = "done"
  /\ resp.status = "success" /\ resp.score = 875 /\ resp.path = "manual_review"
  /\ ran = <<"capture", "enrich", "score", "branch", "summarize">>

\* the run has scored scenario B: the complete payload with email j@gmail.com,
\* the enrichment collaborator failing and the model scorer failing
ScenarioB ==
  /\ Get(st, "raw", NoPayload) = [CompletePayload EXCEPT !.email = "j@gmail.com"]
  /\ InSeq("score", ran)
  /\ InSeq(EnrichCall(st, FALSE), calls)
  /\ InSeq(Call("score_lead_with_rubric", FALSE, 0), calls)

\* C17: in scenario B the rule score clamps to 0.0, the final score is 0.0, and
\* the run ends in nurture with decided_path = nurture.
C17_ScenarioB ==
  ScenarioB =>
    /\ rule_score(st) = 0
    /\ st.score = 0
    /\ pc \in {"end", "done"} =>
         /\ ran = <<"capture", "enrich", "score", "branch", "nurture">>
         /\ st.decided_path = "nurture"
    /\ pc = "done" => resp.path = "nurture" /\ resp.score = 0

C17_Witness ==
  /\ ScenarioB
  /\ pc = "done"
  /\ resp.status = "success" /\ resp.score = 0 /\ resp.path = "nurture"
  /\ ran = <<"capture", "enrich", "score", "branch", "nurture">>

\* capture has run and returned (it did not raise)
CaptureReturned == Len(ran) > 0 /\ ~(ran = <<"capture">> /\ pc = "done")

\* C18: lead_id is assigned exactly once per submission, by capture, to the
\* payload's id or else the normalized email; no later stage and no ingress step
\* assigns or changes it, and the response reports that value.
C18_LeadIdWrittenOnce ==
  /\ st.writes["lead_id"] = (IF CaptureReturned THEN 1 ELSE 0)
  /\ CaptureReturned =>
       /\ "lead_id" \in st.keys
       /\ st.lead_id = Or(st.raw.id, st.normalized.email)
       /\ st.normalized.email = Lower(Or(st.raw.email, PropsEmailValue(st.raw.properties)))
  /\ (pc = "done" /\ resp.status = "success") => resp.lead_id = st.lead_id

C18_Witness ==
  /\ pc = "done" /\ resp.status = "success"
  /\ st.raw.id = "lead-7"
  /\ resp.lead_id = "lead-7"
  /\ st.writes["lead_id"] = 1
  /\ Len(st.errors) > 0

\* C19: every step of a submission (a stage, the branch decision, the ingress
\* notification step) leaves the errors it found as a prefix of the errors it
\* hands on: entries are only appended.
C19_ErrorsAppendOnly ==
  [][pc \notin {"idle", "done"} =>
       /\ "errors" \in st'.keys
       /\ IsPrefix(Get(st, "errors", <<>>), Get(st', "errors", <<>>))]_vars

C19_Witness ==
  /\ pc = "done" /\ resp.status = "success"
  /\ ran = <<"capture", "enrich", "score", "branch", "summarize">>
  /\ Len(st.errors) = 4
  /\ st.errors[3] = "Summarization failed: API timeout"
  /\ Last(st.errors) = "slack_notification_failed: API timeout"

\* the value the branch decision gives decided_path for the record's score
BranchValue == IF st.score < NurtureThreshold THEN "nurture" ELSE "manual_review"

\* C20 as stated: decided_path is assigned exactly once per submission, by the
\* branch decision: not before it, and by no stage after it.
C20_DecidedPathWrittenOnce ==
  /\ st.writes["decided_path"] = (IF InSeq("branch", ran) THEN 1 ELSE 0)
  /\ InSeq("branch", ran) => st.decided_path = BranchValue

\* C20 (amended): decided_path is first assigned by the branch decision and its
\* value never changes afterwards; the only other assignment is the nurture
\* stage's, which assigns the value nurture a second time.
C20_DecidedPathSetByBranch ==
  /\ ~InSeq("branch", ran) =>
       st.writes["decided_path"] = 0 /\ "decided_path" \notin st.keys
  /\ InSeq("branch", ran) =>
       /\ st.writes["decided_path"] = (IF InSeq("nurture", ran) THEN 2 ELSE 1)
       /\ "decided_path" \in st.keys
       /\ st.decided_path = BranchValue
  /\ InSeq("nurture", ran) => st.decided_path = "nurture"
  /\ (pc = "done" /\ resp.status = "success") => resp.path = BranchValue

C20_Witness ==
  /\ pc = "done" /\ resp.status = "success"
  /\ Last(ran) = "nurture"
  /\ st.writes["decided_path"] = 2
  /\ resp.path = "nurture"

\* route has been called and owner resolution raised in it
OwnerResolutionThrew ==
  InSeq("route", ran) /\ InSeq(Call("find_owner_by_rules", FALSE, 0), calls)

FallbackReason == "Fallback to default owner due to routing error"

\* C21: when owner resolution raises inside route, route returns: the owner is
\* the DEFAULT owner of the routing table, route_reason is the fallback reason
\* and an error has been appended.
C21_OwnerFailureFallsBack ==
  OwnerResolutionThrew =>
    /\ pc # "raised"
    /\ {"owner", "route_reason"} \subseteq st.keys
    /\ st.owner = DictGet(load_routing_rules(routing), "DEFAULT", "unassigned@company.com")
    /\ st.route_reason = FallbackReason
    /\ InSeq("Routing failed: Routing error", st.errors)

\* C22: a route call in which the CRM upsert fails (it raises or returns None)
\* returns with crm_record_id None, one more entry in errors, and the owner and
\* reason of the owner resolution kept.
C22_CrmFailureRecorded ==
  [][(pc = "route" /\ InSeq(Call("create_or_update_contact", FALSE, 0), calls'))
       => /\ pc' = "summarize"
          /\ "crm_record_id" \in st'.keys /\ st'.crm_record_id = NONE
          /\ Len(st'.errors) = Len(st.errors) + 1
          /\ "owner" \in st'.keys /\ Truthy(st'.owner)
          /\ st'.route_reason # FallbackReason]_vars

\* the routing configurations C23 is about: no file, a file that is not JSON,
\* a file whose JSON is not a mapping
Malformed == {MissingConfig, InvalidJsonConfig, JsonConfig(JsonList)}

\* C23: with the routing file missing or malformed, route returns without
\* raising and has assigned an owner, taken from a built-in default table
\* unless the CRM knows the contact's owner or the industry decides.
C23_BadConfigNotFatal ==
  (InSeq("route", ran) /\ routing \in Malformed) =>
    /\ pc # "raised"
    /\ "owner" \in st.keys /\ Truthy(st.owner)
    /\ st.owner \in {"us-team@company.com", "canada-team@company.com",
                      "emea-team@company.com", "general@company.com", "owner-77",
                      "saas-team@company.com"}

\* the collaborator calls made by the step, and how many of them failed
NewCalls == SubSeq(calls', Len(calls) + 1, Len(calls'))

FailedIn(q) == Cardinality({i \in 1..Len(q) : ~q[i].ok})

SimilarityFailed == InSeq(Call("similar_accounts", FALSE, 0), NewCalls)

SummarizationFailed == InSeq(Call("summarize_for_ae", FALSE, 0), NewCalls)

\* C24: summarize never raises: whichever of its collaborator calls fail, it
\* returns with similar_accounts and summary set and with one more errors entry
\* for each call that failed.
C24_SummarizeNeverRaises ==
  [][pc = "summarize" =>
       /\ pc' = "end"
       /\ {"similar_accounts", "summary"} \subseteq st'.keys
       /\ Len(st'.errors) = Len(st.errors) + FailedIn(NewCalls)
       /\ IsPrefix(st.errors, st'.errors)]_vars

C24_Witness ==
  /\ pc = "end"
  /\ Last(ran) = "summarize"
  /\ Last(calls) = Call("similar_accounts", FALSE, 0)
  /\ Last(st.errors) = "Summarization failed: API timeout"
  /\ {"similar_accounts", "summary"} \subseteq st.keys

\* C25 as stated: when summarization failed or the similarity lookup failed, the
\* stored summary is the template built from normalized and score; a similarity
\* failure changes nothing but similar_accounts, which becomes the empty list.
C25_TemplateOnAnyFailure ==
  [][(pc = "summarize" /\ (SimilarityFailed \/ SummarizationFailed)) =>
       /\ st'.summary = TemplateSummary(st')
       /\ SimilarityFailed => st'.similar_accounts = <<>>
       /\ ~SimilarityFailed => st'.similar_accounts = SimilarFound]_vars

\* C25 (amended): when summarization failed the stored summary is the template
\* and similar_accounts is the list the lookup returned; when the similarity
\* lookup failed summarization is not called, similar_accounts is the empty list
\* and the summary is the fixed text "Summary generation failed".
C25_TemplateOnSummarizationFailure ==
  [][pc = "summarize" =>
       /\ SummarizationFailed =>
            /\ st'.summary = TemplateSummary(st')
            /\ st'.similar_accounts = SimilarFound
       /\ SimilarityFailed =>
            /\ ~InSeq("summarize_for_ae", [i \in 1..Len(NewCalls) |-> NewCalls[i].op])
            /\ st'.similar_accounts = <<>>
            /\ st'.summary = "Summary generation failed"]_vars

C25_Witness ==
  /\ pc = "end"
  /\ Last(ran) = "summarize"
  /\ Last(calls) = Call("summarize_for_ae", FALSE, 0)
  /\ st.normalized.full_name = "J Doe" /\ st.normalized.company = "Acme"
  /\ st.score = 875
  /\ st.summary = "Lead: J Doe from Acme (Score: 0.88)"

\* C26: a nurture call makes no collaborator call and returns with decided_path
\* = nurture and nurture_data, nurture_task and email_sequence set; when an
\* internal error is raised in it, it still returns, with the error recorded,
\* decided_path = nurture and the minimal fallback nurture_data.
C26_NurtureAlwaysSets ==
  [][pc = "nurture" =>
       /\ pc' = "end"
       /\ calls' = calls
       /\ {"decided_path", "nurture_data"} \subseteq st'.keys
       /\ st'.decided_path = "nurture"
       /\ IF st'.errors = st.errors
          THEN /\ {"nurture_task", "email_sequence"} \subseteq st'.keys
               /\ st'.nurture_data = "low_score_nurture"
               /\ st'.nurture_task = "nurture_followup"
               /\ st'.email_sequence = "low_score_education"
          ELSE /\ st'.errors = Append(st.errors, "Nurture process failed: internal error")
               /\ st'.nurture_data = "fallback_nurture"]_vars

C26_Witness ==
  /\ pc = "end"
  /\ Last(ran) = "nurture"
  /\ st.score >= NurtureThreshold
  /\ Len(st.errors) > 0 /\ Last(st.errors) = "Nurture process failed: internal error"
  /\ st.decided_path = "nurture" /\ st.nurture_data = "fallback_nurture"
  /\ "nurture_task" \in st.keys /\ "email_sequence" \notin st.keys

StageNames == {"capture", "enrich", "score", "route", "summarize", "nurture"}

\* C27: every stage call returns the record to the engine, whatever the payload
\* and the enrichment hold (null fields included): no exception leaves a stage,
\* and each collaborator failure in the call adds an errors entry.
C27_NoStageFailureEscapes ==
  [][(pc \in StageNames) =>
       /\ pc' \in (StageNames \cup {"branch", "end"})
       /\ Len(st'.errors) >= Len(st.errors) + FailedIn(NewCalls)
       /\ resp'.status # "error"]_vars

NotificationOps == {"send_lead_notification", "send_high_priority_alert"}

\* C28: within one submission no collaborator operation is called twice: a call
\* that failed is not repeated, and at most one notification is sent.
C28_NoRetry ==
  /\ \A i, j \in 1..Len(calls) : calls[i].op = calls[j].op => i = j
  /\ Cardinality({i \in 1..Len(calls) : calls[i].op \in NotificationOps}) <= 1

C28_Witness ==
  /\ pc = "done" /\ resp.status = "success"
  /\ Len(calls) = 5
  /\ calls[1] = EnrichCall(st, FALSE)
  /\ calls[4] = Call("summarize_for_ae", FALSE, 0)
  /\ calls[5].op \in NotificationOps /\ ~calls[5].ok
  /\ Get(st, "enrichment", NoEnrichment) = NoEnrichment

\* C29: when the notification call fails (it raises, or returns no message id),
\* the notification step adds an errors entry and no notification tag, and the
\* response is the success response.
C29_NotificationFailureRecorded ==
  [][(pc = "end" /\ FailedIn(NewCalls) > 0) =>
       /\ Len(st'.errors) = Len(st.errors) + 1
       /\ st'.notifications = st.notifications
       /\ pc' = "done"
       /\ resp' = SuccessResp(st')]_vars

\* C30: with neither a domain nor an email in normalized, enrich sets enrichment
\* = {} without calling the collaborator and without a new error; otherwise it
\* calls the collaborator exactly once, with normalized's domain and email.
C30_EnrichSkipOrCallOnce ==
  [][pc = "enrich" =>
       LET norm == st.normalized
       IN IF ~Truthy(norm.domain) /\ ~Truthy(norm.email)
          THEN /\ NewCalls = <<>>
               /\ st'.errors = st.errors
               /\ "enrichment" \in st'.keys /\ st'.enrichment = NoEnrichment
          ELSE /\ Len(NewCalls) = 1
               /\ NewCalls[1].op = "enrich_domain_person"
               /\ NewCalls[1].args = <<norm.domain, norm.email>>
               /\ "enrichment" \in st'.keys]_vars

C30_Witness ==
  /\ ran = <<"capture", "enrich">>
  /\ st.normalized.domain = "acme.com" /\ st.normalized.email = ""
  /\ Len(calls) = 1
  /\ calls[1].op = "enrich_domain_person" /\ calls[1].args = <<"acme.com", "">>

\* the two calls of a route step in which both collaborators succeeded
RouteSucceeded ==
  /\ pc = "route"
  /\ Len(NewCalls) = 2
  /\ NewCalls[1].op = "find_owner_by_rules" /\ NewCalls[1].ok
  /\ NewCalls[2].op = "create_or_update_contact" /\ NewCalls[2].ok

\* C31: a route call in which owner resolution and the CRM upsert both succeed
\* stores the owner that the resolution returned, the id that the upsert
\* returned and a route_reason naming the lead's country and that owner, and
\* appends nothing to errors.
C31_RouteSuccess ==
  [][RouteSucceeded
       => /\ pc' = "summarize"
          /\ {"owner", "crm_record_id", "route_reason"} \subseteq st'.keys
          /\ st'.owner = NewCalls[1].ret
          /\ st'.crm_record_id = NewCalls[2].ret /\ Truthy(st'.crm_record_id)
          /\ st'.route_reason =
               "Matched territory " \o PyStr(st.normalized.country) \o " -> "
                 \o NewCalls[1].ret
          /\ st'.errors = st.errors]_vars

\* route has returned after both calls succeeded, for a US lead that the
\* routing table gives to the US team
C31_Witness ==
  /\ pc = "summarize" /\ Last(ran) = "route"
  /\ Last(calls) = CrmCall("id")
  /\ st.normalized.country = "US"
  /\ st.owner = "us-team@company.com"
  /\ st.crm_record_id = "12345"
  /\ st.route_reason = "Matched territory US -> us-team@company.com"

\* C32: an enrich call in which the collaborator raises, on a record whose
\* errors is empty, leaves a first errors entry that contains enrich_failed.
C32_EnrichFailedTag ==
  [][(pc = "enrich" /\ st.errors = <<>> /\ NewCalls = <<EnrichCall(st, FALSE)>>)
       => /\ Len(st'.errors) > 0
          /\ HasSub(st'.errors[1], "enrich_failed")]_vars

\* the reference rubric, in thousandths, on the values of normalized and of
\* enrichment's company (a null or absent value earns nothing)
Rubric(norm, enrichment) ==
  LET c == Get(enrichment, "company", EmptyCompany)
      Has(k) == k \in c.keys /\ k \notin c.nulls
      headcount == IF Has("employees") THEN c.employees ELSE 0
      industry == IF Has("industry") THEN Lower(c.industry) ELSE ""
      title == IF Truthy(norm.title) THEN Lower(norm.title) ELSE ""
      country == IF Truthy(norm.country) THEN Upper(norm.country) ELSE ""
      email == IF Truthy(norm.email) THEN norm.email ELSE ""
      sum == (IF headcount >= 20 THEN 300 ELSE 0)
               + (IF headcount >= 100 THEN 100 ELSE 0)
               + (IF industry \in {"saas", "fintech", "ecommerce", "healthtech", "edtech"}
                  THEN 200 ELSE 0)
               + (IF \E w \in {"head", "lead", "director", "vp", "cxo", "chief", "manager"} :
                       HasSub(title, w)
                  THEN 200 ELSE 0)
               + (IF country \in {"US", "CA", "UK", "DE", "FR", "MA"} THEN 100 ELSE 0)
               - (IF \E d \in {"gmail.com", "yahoo.com", "outlook.com", "hotmail.com"} :
                       EndsWith(email, d)
                  THEN 400 ELSE 0)
               + (IF Has("tech") /\ Len(c.tech) > 0 THEN 100 ELSE 0)
  IN IF sum < 0 THEN 0 ELSE IF sum > 1000 THEN 1000 ELSE sum

\* the record but for what the score stage writes
BesidesScore(s) ==
  [k \in (DOMAIN s) \ {"score", "score_reasons", "errors", "keys", "writes"} |-> s[k]]

\* C33: in every call of score the rule scorer returns the reference rubric's
\* value of normalized and enrichment (seen as the stored score when the model
\* scorer fails, and as half of the stored score otherwise), and the record's
\* other keys are as before.
C33_RuleScoreIsRubric ==
  [][(pc = "score")
       => /\ pc' = "branch"
          /\ rule_score(st) = Rubric(st.normalized, st.enrichment)
          /\ NewCalls[1].ok
               => st'.score = Clamp((Rubric(st.normalized, st.enrichment) + NewCalls[1].num) \div 2)
          /\ ~NewCalls[1].ok => st'.score = Rubric(st.normalized, st.enrichment)
          /\ BesidesScore(st') = BesidesScore(st)]_vars

\* C33, for the inputs in which employees and industry are not null
C33_RuleScoreIsRubricNoNulls ==
  [][(pc = "score" /\ ~RuleScoreRaises(st))
       => /\ pc' = "branch"
          /\ rule_score(st) = Rubric(st.normalized, st.enrichment)
          /\ NewCalls[1].ok
               => st'.score = Clamp((Rubric(st.normalized, st.enrichment) + NewCalls[1].num) \div 2)
          /\ ~NewCalls[1].ok => st'.score = Rubric(st.normalized, st.enrichment)
          /\ BesidesScore(st') = BesidesScore(st)]_vars

\* the owner that the precedence gives: the existing contact's owner, then the
\* table's entry for the country, then the industry's team, then DEFAULT
\* (dflt where the table has no DEFAULT)
Precedence(existing, country, industry, routes, dflt) ==
  IF Truthy(existing) THEN existing
  ELSE IF country \in DOMAIN routes.map THEN routes.map[country]
  ELSE IF industry \in {"saas", "fintech", "ecommerce"} THEN industry \o "-team@company.com"
  ELSE IF "DEFAULT" \in DOMAIN routes.map THEN routes.map["DEFAULT"]
  ELSE dflt

\* a route step in which owner resolution returned
OwnerResolved ==
  /\ pc = "route"
  /\ Len(NewCalls) > 0
  /\ NewCalls[1].op = "find_owner_by_rules" /\ NewCalls[1].ok

\* C34: the owner that owner resolution returns is the one the precedence
\* gives, in the mode with a CRM key and in the mock mode (where no CRM is
\* asked, so no existing contact is known).
C34_OwnerPrecedence ==
  [][OwnerResolved
       => LET mode == NewCalls[1].args[1]
              existing == IF mode = "api" THEN NewCalls[1].args[2] ELSE NONE
              country == IF Truthy(st.normalized.country)
                         THEN Upper(st.normalized.country) ELSE ""
          IN NewCalls[1].ret =
               Precedence(existing, country, IndustryOf(st.enrichment),
                          load_routing_rules(routing), NewCalls[1].ret)]_vars

\* C34 in the mode with a CRM key only
C34_OwnerPrecedenceApiMode ==
  [][(OwnerResolved /\ NewCalls[1].args[1] = "api")
       => LET country == IF Truthy(st.normalized.country)
                         THEN Upper(st.normalized.country) ELSE ""
          IN NewCalls[1].ret =
               Precedence(NewCalls[1].args[2], country, IndustryOf(st.enrichment),
                          load_routing_rules(routing), NewCalls[1].ret)]_vars

\* the keys that C35 names besides raw, each written by one stage
CarriedKeys == {"normalized", "lead_id", "enrichment", "score"}

\* C35: from the creation of the record to the response, no step changes raw,
\* and no step changes or removes normalized, lead_id, enrichment or score once
\* the key is in the record; the success response reports the record's lead_id
\* and score.
C35_NothingDropped ==
  [][(pc \notin {"idle", "done"})
       => /\ "raw" \in st'.keys /\ st'.raw = st.raw
          /\ \A k \in CarriedKeys \cap st.keys : k \in st'.keys /\ st'[k] = st[k]
          /\ (pc' = "done" /\ resp'.status = "success")
               => /\ CarriedKeys \subseteq st'.keys
                  /\ resp'.lead_id = st'.lead_id
                  /\ resp'.score = st'.score]_vars

\* a completed run through summarize whose similarity lookup failed: the final
\* record still holds what capture, enrich and score wrote
C35_Witness ==
  /\ pc = "done" /\ resp.status = "success"
  /\ Last(ran) = "summarize"
  /\ InSeq(Call("similar_accounts", FALSE, 0), calls)
  /\ st.raw = CompletePayload
  /\ st.normalized.email = "j@acme.com"
  /\ st.lead_id = "j@acme.com"
  /\ st.enrichment = SaasCompany150
  /\ st.score = 875 /\ resp.score = 875

\* check_and_set call i of the log admitted its key
AdmittedAt(i) == hist[i].op = "check_and_set" /\ hist[i].ret

\* clear_key was called for key k between calls i and j of the log
ClearedBetween(k, i, j) ==
  \E c \in (i + 1)..(j - 1) : hist[c].op = "clear_key" /\ hist[c].key = k

\* C36: in the fallback tier, after a check_and_set admitted a key, every later
\* check_and_set of that key is rejected, whatever the ttl arguments and the
\* time that has passed, unless clear_key was called for the key in between.
C36_MemoryTierKeepsKeys ==
  tier = "memory" =>
    \A i, j \in 1..Len(hist) :
      (i < j /\ AdmittedAt(i) /\ hist[j].op = "check_and_set"
         /\ hist[j].key = hist[i].key /\ ~ClearedBetween(hist[i].key, i, j))
        => ~hist[j].ret

\* a key admitted with ttl 1 is rejected half an hour later, cleared, and then
\* admitted again
C36_Witness ==
  /\ tier = "memory"
  /\ Len(hist) = 4
  /\ hist[1] = [op |-> "check_and_set", key |-> "evt-1", ttl |-> 1, ret |-> TRUE, at |-> 0]
  /\ hist[2] = [op |-> "check_and_set", key |-> "evt-1", ttl |-> 1, ret |-> FALSE,
                at |-> TickStep]
  /\ hist[3].op = "clear_key" /\ hist[3].key = "evt-1"
  /\ hist[4].op = "check_and_set" /\ hist[4].key = "evt-1" /\ hist[4].ret

\* the notification calls made so far for the submission being handled
NotificationCalls == SelectSeq(calls, LAMBDA c : c.op \in NotificationOps)

\* C37: while the engine runs no notification is attempted; a submission whose
\* run completed has exactly one attempt, made last: the high-priority alert
\* if the final score is at least 0.8, the standard notification otherwise; a
\* rejected duplicate and a run that failed have none.
C37_OneNotification ==
  /\ pc # "done" => Len(NotificationCalls) = 0
  /\ (pc = "done" /\ resp.status = "success") =>
       /\ Len(NotificationCalls) = 1
       /\ Last(calls).op =
            (IF st.score >= 800 THEN "send_high_priority_alert"
             ELSE "send_lead_notification")
  /\ (pc = "done" /\ resp.status # "success") =>
       /\ resp.status \in {"duplicate_ignored", "error"}
       /\ Len(NotificationCalls) = 0

\* a run that ended with score 0.875 and whose one notification, the
\* high-priority alert, failed
C37_Witness ==
  /\ pc = "done" /\ resp.status = "success"
  /\ st.score = 875
  /\ Last(calls) = Call("send_high_priority_alert", FALSE, 0)
  /\ Len(NotificationCalls) = 1

\* a submission answered without a notification: a rejected duplicate
C37_WitnessDuplicate ==
  /\ pc = "done" /\ resp.status = "duplicate_ignored"
  /\ Len(hist) = 2 /\ Len(calls) = 0

\* C38: decided_path never holds a value other than nurture and manual_review,
\* and in the final record of a completed run it is present, is nurture if the
\* run ended in the nurture stage and manual_review if it ended in summarize,
\* and is the path that the response reports.
C38_DecidedPathMatchesTerminal ==
  /\ "decided_path" \in st.keys => st.decided_path \in {"nurture", "manual_review"}
  /\ (pc \in {"end", "done"} /\ Len(ran) > 0 /\ Last(ran) \in Terminal) =>
       /\ "decided_path" \in st.keys
       /\ st.decided_path =
            (IF Last(ran) = "nurture" THEN "nurture" ELSE "manual_review")
  /\ (pc = "done" /\ resp.status = "success") =>
       /\ Last(ran) \in Terminal
       /\ resp.path = st.decided_path

\* a completed run of score 0.875 that ended in summarize: manual_review
C38_Witness ==
  /\ pc = "done" /\ resp.status = "success"
  /\ ran = <<"capture", "enrich", "score", "branch", "summarize">>
  /\ st.score = 875
  /\ st.decided_path = "manual_review" /\ resp.path = "manual_review"

====
